---------------------------- MODULE Spec2Model ----------------------------
(***************************************************************************)
(* A model of umpire's object store (src/libumpire.py): the KVLM codec,    *)
(* the tree codec, object_write / object_read, the name resolver           *)
(* (object_resolve, object_find, ref_resolve) and the ancestry walk        *)
(* (log_graphviz).                                                         *)
(*                                                                         *)
(* Python bytes and str values are sequences of character codes (ASCII),   *)
(* positions are 0-based as in the source, and a slice or a find follows   *)
(* Python's rules (negative indices, clamping, -1 for "not found").        *)
(* A raised exception is a record whose st field names the exception; a    *)
(* loop that never ends is st = "hang".                                    *)
(***************************************************************************)
EXTENDS Integers, Sequences, FiniteSets, TLC

VARIABLES
    \* the repository on disk
    objects,        \* .git/objects: <<dir, file>> -> file content
    refs,           \* ref files under .git: path -> file content
    \* the running command (one at a time: the program is single-threaded)
    pc,             \* "idle" | "find" | "returned" | "raised" | "hang"
    call,           \* the arguments of the last call
    sha,            \* object_find's current candidate
    result,         \* what the last call returned or raised
    trail,          \* the candidates object_find's loop has read, in order
    returned,       \* per written object: every result object_write gave
    written,        \* per written object: its file right after each write
    nWrites,        \* calls of object_write so far
    \* kvlm_parse / kvlm_serialize
    kheaders, kmsg, \* the header records and message the buffer encodes
    kraw, kdct, kout, kpc,
    \* tree_parse / tree_serialize
    tentries,       \* the entries the payload encodes
    traw, tpos, tret, tout, tpc,
    \* log_graphviz
    lgraph,         \* the parents of each stored commit, by number
    lstart, lstack, seen, edges, visits, lpc,
    \* ref_resolve
    rstart, rcur, rresult, rpc,
    rdepth          \* nested calls of ref_resolve under way

storeVars == <<objects, refs, pc, call, sha, result, trail, returned,
               written, nWrites>>
kvlmVars  == <<kheaders, kmsg, kraw, kdct, kout, kpc>>
treeVars  == <<tentries, traw, tpos, tret, tout, tpc>>
logVars   == <<lgraph, lstart, lstack, seen, edges, visits, lpc>>
refVars   == <<rstart, rcur, rresult, rpc, rdepth>>
vars      == <<storeVars, kvlmVars, treeVars, logVars, refVars>>

---------------------------------------------------------------------------
(* Character codes *)
SP  == 32
NL  == 10
NUL == 0

B_blob    == <<98, 108, 111, 98>>                 \* b'blob'
B_tree    == <<116, 114, 101, 101>>               \* b'tree'
B_commit  == <<99, 111, 109, 109, 105, 116>>      \* b'commit'
B_tag     == <<116, 97, 103>>                     \* b'tag'
B_object  == <<111, 98, 106, 101, 99, 116>>       \* b'object'
B_parent  == <<112, 97, 114, 101, 110, 116>>      \* b'parent'
B_gpgsig  == <<103, 112, 103, 115, 105, 103>>     \* b'gpgsig'
S_HEAD    == <<72, 69, 65, 68>>                   \* "HEAD"
S_refmark == <<114, 101, 102, 58, 32>>            \* "ref: "

---------------------------------------------------------------------------
(* Python's sequence operations *)

SetMin(S) == CHOOSE k \in S : \A m \in S : k <= m

\* a slice bound i on a sequence of length n
Norm(i, n) == IF i < 0 THEN (IF i + n < 0 THEN 0 ELSE i + n)
              ELSE (IF i > n THEN n ELSE i)

\* s[i:j]
PySlice(s, i, j) ==
    LET a == Norm(i, Len(s))
        b == Norm(j, Len(s))
    IN  IF a >= b THEN <<>> ELSE SubSeq(s, a + 1, b)

\* s[i:]
PyFrom(s, i) == PySlice(s, i, Len(s))

\* s.find(c, start) for a one-byte c
Find(s, c, start) ==
    LET a == Norm(start, Len(s))
        hits == {k \in a .. (Len(s) - 1) : s[k + 1] = c}
    IN  IF hits = {} THEN -1 ELSE SetMin(hits)

\* s.startswith(p)
StartsWith(s, p) == Len(p) <= Len(s) /\ SubSeq(s, 1, Len(p)) = p

\* s.replace(old, new) for a one-byte old (the recursion halves the range:
\* the result is that of a scan from left to right)
RECURSIVE ReplaceRange(_, _, _, _, _)
ReplaceRange(s, old, new, lo, hi) ==
    IF lo > hi THEN <<>>
    ELSE IF lo = hi THEN (IF s[lo] = old THEN new ELSE <<s[lo]>>)
    ELSE ReplaceRange(s, old, new, lo, (lo + hi) \div 2)
         \o ReplaceRange(s, old, new, (lo + hi) \div 2 + 1, hi)

Replace(s, old, new) == ReplaceRange(s, old, new, 1, Len(s))

\* the sum of w(i, s[i]) for i in lo .. hi, modulo m
RECURSIVE RangeSum(_, _, _, _, _)
RangeSum(s, w(_, _), lo, hi, m) ==
    IF lo > hi THEN 0
    ELSE IF lo = hi THEN w(lo, s[lo]) % m
    ELSE (RangeSum(s, w, lo, (lo + hi) \div 2, m)
          + RangeSum(s, w, (lo + hi) \div 2 + 1, hi, m)) % m

---------------------------------------------------------------------------
(* collections.OrderedDict as kvlm_parse uses it: entries in insertion     *)
(* order; a value is a scalar (list = FALSE, vs of length 1) or a list.    *)

DictKeys(d) == {d[i].k : i \in 1 .. Len(d)}
DictHas(d, key) == key \in DictKeys(d)
DictAt(d, key) == CHOOSE i \in 1 .. Len(d) : d[i].k = key
DictGet(d, key) == d[DictAt(d, key)]
\* d[key] = value: a new key goes last, a known key keeps its place
DictSet(d, key, isList, vals) ==
    LET e == [k |-> key, list |-> isList, vs |-> vals]
    IN  IF DictHas(d, key) THEN [d EXCEPT ![DictAt(d, key)] = e]
        ELSE Append(d, e)

---------------------------------------------------------------------------
(* kvlm_parse *)

\* the loop of lines 359-362: the end of the value that starts before `end`
RECURSIVE ValueEnd(_, _, _)
ValueEnd(raw, end, fuel) ==
    LET e == Find(raw, NL, end + 1)
    IN  IF e + 1 >= Len(raw) THEN [st |-> "IndexError", end |-> e]
        ELSE IF raw[e + 2] # SP THEN [st |-> "ok", end |-> e]
        ELSE IF fuel = 0 THEN [st |-> "hang", end |-> e]
        ELSE ValueEnd(raw, e, fuel - 1)

\* line 364: raw[spc + 1: end].replace(b'\n', b'\n')
ParseValue(raw, spc, end) == Replace(PySlice(raw, spc + 1, end), NL, <<NL>>)

\* lines 366-373
AddHeader(dct, key, value) ==
    IF DictHas(dct, key)
    THEN DictSet(dct, key, TRUE, Append(DictGet(dct, key).vs, value))
    ELSE DictSet(dct, key, FALSE, <<value>>)

RECURSIVE kvlm_parse_from(_, _, _, _)
kvlm_parse_from(raw, start, dct, fuel) ==
    LET spc == Find(raw, SP, start)
        nl  == Find(raw, NL, start)
    IN  IF spc < 0 \/ nl < spc
        THEN IF nl # start THEN [st |-> "AssertionError", dct |-> dct]
             ELSE [st |-> "ok",
                   dct |-> DictSet(dct, <<>>, FALSE, <<PyFrom(raw, start + 1)>>)]
        ELSE LET key == PySlice(raw, start, spc)
                 ve  == ValueEnd(raw, start, Len(raw) + 1)
             IN  IF ve.st # "ok" THEN [st |-> ve.st, dct |-> dct]
                 ELSE IF fuel = 0 THEN [st |-> "RecursionError", dct |-> dct]
                 ELSE kvlm_parse_from(raw, ve.end + 1,
                                      AddHeader(dct, key, ParseValue(raw, spc, ve.end)),
                                      fuel - 1)

kvlm_parse(raw) == kvlm_parse_from(raw, 0, <<>>, Len(raw) + 1)

---------------------------------------------------------------------------
(* kvlm_serialize *)

SerializeLine(k, v) == k \o <<SP>> \o Replace(v, NL, <<NL, SP>>) \o <<NL>>

RECURSIVE SerializeValues(_, _)
SerializeValues(k, vs) ==
    IF vs = <<>> THEN <<>>
    ELSE SerializeLine(k, Head(vs)) \o SerializeValues(k, Tail(vs))

RECURSIVE SerializeHeaders(_)
SerializeHeaders(d) ==
    IF d = <<>> THEN <<>>
    ELSE (IF Head(d).k = <<>> THEN <<>> ELSE SerializeValues(Head(d).k, Head(d).vs))
         \o SerializeHeaders(Tail(d))

kvlm_serialize(kvlm) ==
    IF ~DictHas(kvlm, <<>>) THEN [st |-> "KeyError", data |-> <<>>]
    ELSE IF DictGet(kvlm, <<>>).list THEN [st |-> "TypeError", data |-> <<>>]
    ELSE [st |-> "ok",
          data |-> SerializeHeaders(kvlm) \o <<NL>> \o DictGet(kvlm, <<>>).vs[1]]

---------------------------------------------------------------------------
(* Hexadecimal *)

\* the digit character of n in 0 .. 15, lower case
HexDigit(n) == IF n < 10 THEN 48 + n ELSE 87 + n

IsHexChar(c) == c \in (48 .. 57) \cup (65 .. 70) \cup (97 .. 102)

\* the value of a hex digit character
HexVal(c) == IF c <= 57 THEN c - 48 ELSE IF c <= 70 THEN c - 55 ELSE c - 87

\* str.lower()
Lower(s) == [i \in 1 .. Len(s) |-> IF s[i] \in 65 .. 90 THEN s[i] + 32 ELSE s[i]]

\* bytes.hex(): two digits a byte
HexOfBytes(bs) ==
    [i \in 1 .. 2 * Len(bs) |->
        IF i % 2 = 1 THEN HexDigit(bs[(i + 1) \div 2] \div 16)
        ELSE HexDigit(bs[i \div 2] % 16)]

\* s without its leading characters c
StripLeading(s, c) ==
    LET keep == {i \in 1 .. Len(s) : s[i] # c}
    IN  IF keep = {} THEN <<>> ELSE SubSeq(s, SetMin(keep), Len(s))

StripZeros(ds) == StripLeading(ds, 48)

\* hex(int.from_bytes(bs, "big")): "0x", then the digits without leading zeros
HexOfInt(bs) ==
    LET ds == StripZeros(HexOfBytes(bs))
    IN  <<48, 120>> \o (IF ds = <<>> THEN <<48>> ELSE ds)

\* the bytes that an even number of hex digits spell
BytesOfDigits(ds) ==
    [i \in 1 .. Len(ds) \div 2 |-> 16 * HexVal(ds[2 * i - 1]) + HexVal(ds[2 * i])]

\* int(s, 16).to_bytes(20, byteorder="big")
IntToBytes20(s) ==
    LET body == IF StartsWith(Lower(s), <<48, 120>>) THEN PyFrom(s, 2) ELSE s
        ds   == StripZeros(body)
    IN  IF body = <<>> \/ \E i \in 1 .. Len(body) : ~IsHexChar(body[i])
        THEN [st |-> "ValueError", data |-> <<>>]
        ELSE IF Len(ds) > 40 THEN [st |-> "OverflowError", data |-> <<>>]
        ELSE [st |-> "ok",
              data |-> BytesOfDigits([i \in 1 .. (40 - Len(ds)) |-> 48] \o ds)]

---------------------------------------------------------------------------
(* tree_parse_one, tree_serialize *)

tree_parse_one(raw, start) ==
    LET x == Find(raw, SP, start)
        y == Find(raw, NUL, x)
    IN  IF ~(x - start = 5 \/ x - start = 6)
        THEN [st |-> "AssertionError", pos |-> start, leaf |-> <<>>]
        ELSE [st |-> "ok", pos |-> y + 21,
              leaf |-> [mode |-> PySlice(raw, start, x),
                        path |-> PySlice(raw, x + 1, y),
                        sha  |-> HexOfInt(PySlice(raw, y + 1, y + 21))]]

RECURSIVE SerializeItems(_)
SerializeItems(items) ==
    IF items = <<>> THEN [st |-> "ok", data |-> <<>>]
    ELSE LET i    == Head(items)
             key  == IntToBytes20(i.sha)
             rest == SerializeItems(Tail(items))
         IN  IF key.st # "ok" THEN key
             ELSE IF rest.st # "ok" THEN rest
             ELSE [st |-> "ok",
                   data |-> i.mode \o <<SP>> \o i.path \o <<NUL>> \o key.data \o rest.data]

\* tree_serialize reads obj.items; GitTree.deserialize sets obj.item
tree_serialize(obj) ==
    IF "items" \notin DOMAIN obj THEN [st |-> "AttributeError", data |-> <<>>]
    ELSE SerializeItems(obj.items)

\* GitTree.deserialize, once tree_parse has returned ret
GitTree(ret) == [fmt |-> B_tree, item |-> ret]

---------------------------------------------------------------------------
(* The on-disk envelope: object_write lines 248-258, object_read 192-209 *)

\* str(n).encode() for n >= 0
RECURSIVE DecStr(_)
DecStr(n) == IF n < 10 THEN <<48 + n>> ELSE DecStr(n \div 10) \o <<48 + (n % 10)>>

RECURSIVE DigitsValue(_, _)
DigitsValue(ds, acc) ==
    IF ds = <<>> THEN acc ELSE DigitsValue(Tail(ds), 10 * acc + (Head(ds) - 48))

StripLeft(s) == StripLeading(s, SP)

\* int(s.decode("ascii")): blanks around the digits are allowed
ParseInt(s) ==
    LET ds == StripLeft(s)
    IN  IF ds = <<>> \/ \E i \in 1 .. Len(ds) : ds[i] \notin 48 .. 57
        THEN [st |-> "ValueError", v |-> 0]
        ELSE [st |-> "ok", v |-> DigitsValue(ds, 0)]

\* line 248
Envelope(fmt, data) == fmt \o <<SP>> \o DecStr(Len(data)) \o <<NUL>> \o data

\* zlib.compress / zlib.decompress: a two-byte header, the data, a check
\* byte over the data; anything else does not decompress
PlainByte(i, c) == c
ByteSum(b) == (1 + RangeSum(b, PlainByte, 1, Len(b), 251)) % 251

Compress(b) == <<120, 156>> \o b \o <<ByteSum(b)>>

Decompress(c) ==
    LET b == PySlice(c, 2, -1)
    IN  IF Len(c) >= 3 /\ SubSeq(c, 1, 2) = <<120, 156>> /\ c[Len(c)] = ByteSum(b)
        THEN [st |-> "ok", data |-> b]
        ELSE [st |-> "zlib.error", data |-> <<>>]

\* hashlib.sha1(b).hexdigest(): some fixed function of the bytes to 40 lower
\* case hex digits (SHA-1 itself is not modelled)
PlacedByte(i, c) == (c + 1) * (1 + ((i * i + 7 * i) % 127))
Sha1Hex(b) ==
    LET h == (RangeSum(b, PlacedByte, 1, Len(b), 65521) + 31 * Len(b)) % 65521
    IN  [i \in 1 .. 40 |-> HexDigit(((h \div (1 + (i % 11))) + (i * i) + ((h % 13) * i)) % 16)]

\* repo_file(repo, "objects", sha[0:2], sha[2:])
ObjectPath(h) == <<PySlice(h, 0, 2), PyFrom(h, 2)>>

\* open(path, "wb").write(data)
WriteFile(files, path, data) ==
    [q \in DOMAIN files \cup {path} |-> IF q = path THEN data ELSE files[q]]

\* a Python value with its type, where str and bytes must not be confused
Str(v)   == [t |-> "str", v |-> v]
Bytes(v) == [t |-> "bytes", v |-> v]

\* tree_parse as a whole: its loop never moves pos, so it returns only for
\* an empty payload (the action TreeParseLoop is the loop step by step)
tree_parse(raw) ==
    IF ~(0 < Len(raw)) THEN [st |-> "ok", ret |-> <<>>]
    ELSE IF tree_parse_one(raw, 0).st # "ok" THEN [st |-> "AssertionError", ret |-> <<>>]
    ELSE [st |-> "hang", ret |-> <<>>]

\* c(repo, data): GitObject.__init__ and the deserialize of each class
Construct(fmt, data) ==
    IF fmt = B_blob THEN [st |-> "ok", obj |-> [fmt |-> B_blob, blobdata |-> data]]
    ELSE IF fmt = B_tree
    THEN LET t == tree_parse(data)
         IN  [st |-> t.st, obj |-> GitTree(t.ret)]
    ELSE LET k == kvlm_parse(data)
         IN  [st |-> k.st, obj |-> [fmt |-> fmt, kvlm |-> k.dct]]

\* obj.serialize() of each class
Serialize(obj) ==
    IF obj.fmt = B_blob THEN [st |-> "ok", data |-> obj.blobdata]
    ELSE IF obj.fmt = B_tree THEN tree_serialize(obj)
    ELSE kvlm_serialize(obj.kvlm)

object_read(files, oid) ==
    IF oid.t # "str" THEN [st |-> "TypeError", obj |-> <<>>]
    ELSE IF ObjectPath(oid.v) \notin DOMAIN files
    THEN [st |-> "FileNotFoundError", obj |-> <<>>]
    ELSE LET z == Decompress(files[ObjectPath(oid.v)])
             raw == z.data
             x == Find(raw, SP, 0)
             fmt == PySlice(raw, 0, x)
             y == Find(raw, NUL, x)
             size == ParseInt(PySlice(raw, x, y))
         IN  IF z.st # "ok" THEN [st |-> z.st, obj |-> <<>>]
             ELSE IF size.st # "ok" THEN [st |-> size.st, obj |-> <<>>]
             ELSE IF size.v # Len(raw) - y - 1 THEN [st |-> "MalformedObject", obj |-> <<>>]
             ELSE IF fmt \notin {B_commit, B_tree, B_tag, B_blob}
             THEN [st |-> "UnknownType", obj |-> <<>>]
             ELSE Construct(fmt, PyFrom(raw, y + 1))

---------------------------------------------------------------------------
(* ref_resolve *)

\* lines 541-547 without the recursion: read the file, drop its last
\* character, and either name the next ref or return the content
\* a read that keeps the whole file, the final newline included
RefDataKeepAll(content) == content

RefData(content) == PySlice(content, 0, -1)

RefHop(files, ref) ==
    IF ref \notin DOMAIN files THEN [st |-> "FileNotFoundError", v |-> <<>>]
    ELSE LET data == RefData(files[ref])
         IN  IF StartsWith(data, S_refmark) THEN [st |-> "hop", v |-> PyFrom(data, 5)]
             ELSE [st |-> "ok", v |-> data]

\* the whole call; a chain that never ends exhausts the interpreter's stack
RECURSIVE ref_resolve_from(_, _, _)
ref_resolve_from(files, ref, fuel) ==
    LET h == RefHop(files, ref)
    IN  IF h.st # "hop" THEN h
        ELSE IF fuel = 0 THEN [st |-> "RecursionError", v |-> <<>>]
        ELSE ref_resolve_from(files, h.v, fuel - 1)

ref_resolve(files, ref) == ref_resolve_from(files, ref, Cardinality(DOMAIN files))

---------------------------------------------------------------------------
(* object_resolve *)

HashLen   == 40     \* len(name) == 40, line 647
MinPrefix == 4      \* len(name) >= 4, line 649
HashREMin == 1      \* hashRE, line 637: {1,16}
HashREMax == 16

\* hashRE.match(name)
HashREMatch(name) ==
    /\ Len(name) >= HashREMin /\ Len(name) <= HashREMax
    /\ \A i \in 1 .. Len(name) : IsHexChar(name[i])

\* not name.strip()
IsBlank(name) == \A i \in 1 .. Len(name) : name[i] \in {SP, 9, 10, 11, 12, 13}

\* lines 650-657: the files of objects/<prefix>/ that start with the rest
PrefixCandidates(files, name) ==
    LET lname  == Lower(name)
        prefix == PySlice(lname, 0, 2)
        rem    == PyFrom(lname, 2)
    IN  {prefix \o q[2] : q \in {q \in DOMAIN files : q[1] = prefix /\ StartsWith(q[2], rem)}}

\* none: the call returned None; cands: the list it returned, as a set
\* (os.listdir gives no order)
object_resolve(files, reffiles, name) ==
    IF IsBlank(name) THEN [st |-> "ok", none |-> TRUE, cands |-> {}]
    ELSE IF name = S_HEAD
    THEN LET r == ref_resolve(reffiles, S_HEAD)
         IN  [st |-> r.st, none |-> FALSE, cands |-> {r.v}]
    ELSE IF HashREMatch(name)
    THEN IF Len(name) = HashLen THEN [st |-> "ok", none |-> FALSE, cands |-> {Lower(name)}]
         ELSE IF Len(name) >= MinPrefix
         THEN [st |-> "ok", none |-> FALSE, cands |-> PrefixCandidates(files, name)]
         ELSE [st |-> "ok", none |-> FALSE, cands |-> {}]
    ELSE [st |-> "ok", none |-> FALSE, cands |-> {}]

---------------------------------------------------------------------------
(* Bounds of the model *)
MaxHeaders == 2     \* header records of a generated KVLM buffer
MaxLines   == 2     \* lines of a generated header value

SeqsUpTo(S, n) == UNION {[1 .. k -> S] : k \in 0 .. n}

---------------------------------------------------------------------------
(* The values each group of variables has while another part runs *)
CmdIdle ==
    /\ pc = "idle" /\ call = [op |-> "none"]
    /\ sha = <<>> /\ result = <<>> /\ trail = <<>> /\ returned = <<>>
    /\ written = <<>> /\ nWrites = 0
StoreIdle == objects = <<>> /\ refs = <<>> /\ CmdIdle
KvlmIdle ==
    /\ kheaders = <<>> /\ kmsg = <<>> /\ kraw = <<>> /\ kdct = <<>>
    /\ kout = <<>> /\ kpc = "idle"
TreeIdle ==
    /\ tentries = <<>> /\ traw = <<>> /\ tpos = 0 /\ tret = <<>>
    /\ tout = <<>> /\ tpc = "idle"
LogIdle ==
    /\ lgraph = <<>> /\ lstart = <<>> /\ lstack = <<>> /\ seen = {} /\ edges = <<>>
    /\ visits = <<>> /\ lpc = "idle"
RefIdle ==
    /\ rstart = <<>> /\ rcur = <<>> /\ rresult = <<>> /\ rpc = "idle"
    /\ rdepth = 0

---------------------------------------------------------------------------
(* KVLM buffers that conform to the grammar: header records                *)
(* `key SP value NL`, a value's further lines each behind one space, one   *)
(* blank line, the message.                                                *)

KvKeys     == {B_tree, B_parent, B_gpgsig}
KvLines    == {<<97>>, <<98, 32, 99>>}                       \* "a", "b c"
KvMessages == {<<>>, <<102, 105, 120, 32, 98, 117, 103, 10>>} \* "", "fix bug\n"
KvValues   == UNION {[1 .. n -> KvLines] : n \in 1 .. MaxLines}
KvRecords  == [k : KvKeys, lines : KvValues]

\* the lines of a value, joined by `sep`
RECURSIVE JoinLines(_, _)
JoinLines(lines, sep) ==
    IF Len(lines) = 1 THEN lines[1]
    ELSE lines[1] \o sep \o JoinLines(Tail(lines), sep)

RECURSIVE KvEncodeHeaders(_)
KvEncodeHeaders(hs) ==
    IF hs = <<>> THEN <<>>
    ELSE Head(hs).k \o <<SP>> \o JoinLines(Head(hs).lines, <<NL, SP>>) \o <<NL>>
         \o KvEncodeHeaders(Tail(hs))

KvEncode(hs, msg) == KvEncodeHeaders(hs) \o <<NL>> \o msg

\* the mapping the buffer stands for: each value with its lines joined by
\* newlines, a repeated key's values in a list, the message under b''
RECURSIVE KvDecoded(_, _)
KvDecoded(hs, dct) ==
    IF hs = <<>> THEN dct
    ELSE KvDecoded(Tail(hs), AddHeader(dct, Head(hs).k, JoinLines(Head(hs).lines, <<NL>>)))

InitKvlm ==
    /\ kheaders \in SeqsUpTo(KvRecords, MaxHeaders)
    /\ kmsg \in KvMessages
    /\ kraw = KvEncode(kheaders, kmsg)
    /\ kdct = <<>> /\ kout = <<>> /\ kpc = "input"
    /\ StoreIdle /\ TreeIdle /\ LogIdle /\ RefIdle

\* GitCommit.deserialize
KvlmParse ==
    /\ kpc = "input"
    /\ kdct' = kvlm_parse(kraw)
    /\ kpc' = "parsed"
    /\ UNCHANGED <<kheaders, kmsg, kraw, kout, storeVars, treeVars, logVars, refVars>>

\* GitCommit.serialize
KvlmSerialize ==
    /\ kpc = "parsed" /\ kdct.st = "ok"
    /\ kout' = kvlm_serialize(kdct.dct)
    /\ kpc' = "serialized"
    /\ UNCHANGED <<kheaders, kmsg, kraw, kdct, storeVars, treeVars, logVars, refVars>>

NextKvlm == KvlmParse \/ KvlmSerialize

SpecKvlm == InitKvlm /\ [][NextKvlm]_vars

(* C6: the KVLM round trip. Parsing a conforming buffer yields the mapping *)
(* it stands for (each continuation line's leading space removed), and     *)
(* serializing the parsed mapping gives the buffer back byte for byte.     *)
C6_KvlmRoundTrip ==
    /\ kpc = "parsed" =>
          /\ kdct.st = "ok"
          /\ kdct.dct = DictSet(KvDecoded(kheaders, <<>>), <<>>, FALSE, <<kmsg>>)
    /\ kpc = "serialized" => (kout.st = "ok" /\ kout.data = kraw)

---------------------------------------------------------------------------
(* Tree payloads: per entry `mode SP path NUL` and the raw 20-byte key *)

MaxEntries == 2     \* entries of a generated tree payload
MaxRet     == 3     \* entries tree_parse may collect before the model stops it

TreeModes == {<<49, 48, 48, 54, 52, 52>>, <<52, 48, 48, 48, 48>>}  \* "100644", "40000"
TreePaths == {<<97>>, <<104, 105>>}                                \* "a", "hi"
TreeKeys  == {[i \in 1 .. 20 |-> 16 * i + 1], [i \in 1 .. 20 |-> IF i = 1 THEN 0 ELSE 171]}
TreeEntries == [mode : TreeModes, path : TreePaths, key : TreeKeys]

RECURSIVE TreeEncode(_)
TreeEncode(es) ==
    IF es = <<>> THEN <<>>
    ELSE Head(es).mode \o <<SP>> \o Head(es).path \o <<NUL>> \o Head(es).key
         \o TreeEncode(Tail(es))

InitTree ==
    /\ tentries \in SeqsUpTo(TreeEntries, MaxEntries)
    /\ traw = TreeEncode(tentries)
    /\ tpos = 0 /\ tret = <<>> /\ tout = <<>> /\ tpc = "input"
    /\ StoreIdle /\ KvlmIdle /\ LogIdle /\ RefIdle

\* tree_parse, lines 460-462
TreeParseStart ==
    /\ tpc = "input"
    /\ tpos' = 0 /\ tret' = <<>> /\ tpc' = "parsing"
    /\ UNCHANGED <<tentries, traw, tout, storeVars, kvlmVars, logVars, refVars>>

\* tree_parse, one turn of the loop of lines 464-466: the new position goes
\* to `pow`, and pos stays as it is
TreeParseLoop ==
    /\ tpc = "parsing" /\ tpos < Len(traw) /\ Len(tret) < MaxRet
    /\ LET one == tree_parse_one(traw, tpos)
       IN  IF one.st = "ok"
           THEN tret' = Append(tret, one.leaf) /\ tpc' = "parsing"
           ELSE tret' = tret /\ tpc' = one.st
    /\ tpos' = tpos
    /\ UNCHANGED <<tentries, traw, tout, storeVars, kvlmVars, logVars, refVars>>

\* tree_parse, line 468, and GitTree.deserialize
TreeParseReturn ==
    /\ tpc = "parsing" /\ ~(tpos < Len(traw))
    /\ tpc' = "parsed"
    /\ UNCHANGED <<tentries, traw, tpos, tret, tout, storeVars, kvlmVars, logVars, refVars>>

\* GitTree.serialize
TreeSerialize ==
    /\ tpc = "parsed"
    /\ tout' = tree_serialize(GitTree(tret))
    /\ tpc' = "serialized"
    /\ UNCHANGED <<tentries, traw, tpos, tret, storeVars, kvlmVars, logVars, refVars>>

NextTree == TreeParseStart \/ TreeParseLoop \/ TreeParseReturn \/ TreeSerialize

SpecTree == InitTree /\ [][NextTree]_vars

\* what the parsed entries of a payload are to be: mode, path and the key
\* as 40 hex digits
TreeExpected(es) ==
    [i \in 1 .. Len(es) |->
        [mode |-> es[i].mode, path |-> es[i].path, sha |-> HexOfBytes(es[i].key)]]

(* C7: the tree round trip. Parsing a payload of n entries finishes with   *)
(* exactly those n entries (never more), in order, and serializing the     *)
(* parsed tree gives the payload back.                                     *)
C7_TreeRoundTrip ==
    /\ Len(tret) <= Len(tentries)
    /\ tpc \in {"parsed", "serialized"} =>
          /\ Len(tret) = Len(tentries)
          /\ \A i \in 1 .. Len(tret) :
                /\ tret[i].mode = tentries[i].mode
                /\ tret[i].path = tentries[i].path
                /\ IntToBytes20(tret[i].sha).data = tentries[i].key
    /\ tpc = "serialized" => (tout.st = "ok" /\ tout.data = traw)

---------------------------------------------------------------------------
(* The repository the store commands run on. An object file's name is not  *)
(* checked against its content when it is read (object_read), so the files *)
(* found at the start are named as they are found.                         *)

MaxWrites == 3      \* calls of object_write in one run of the model

S_master     == <<109, 97, 115, 116, 101, 114>>              \* "master"
S_v1         == <<118, 49>>                                  \* "v1"
S_refsheads  == <<114, 101, 102, 115, 47, 104, 101, 97, 100, 115, 47>>  \* "refs/heads/"
S_refstags   == <<114, 101, 102, 115, 47, 116, 97, 103, 115, 47>>       \* "refs/tags/"

Pad40(p, c) == p \o [i \in 1 .. (40 - Len(p)) |-> c]

hA    == Pad40(<<97, 98, 99, 100>>, 48)       \* abcd000... a blob
hB    == [hA EXCEPT ![18] = 49]               \* as hA but for digit 18: a blob
hC    == Pad40(<<97, 98, 99, 101>>, 48)       \* abce000... a blob
hTag  == Pad40(<<49, 50, 51, 52>>, 48)        \* 1234000... a tag of hCm
hTag2 == Pad40(<<49, 50, 102, 102>>, 48)      \* 12ff000... a tag of hTag
hTag3 == Pad40(<<49, 50, 53, 53>>, 48)        \* 1255000... a tag of hCm2
hCm   == Pad40(<<50, 51, 52, 53>>, 48)        \* 2345000... a commit of tree hTr
hCm2  == Pad40(<<53, 54, 55, 56>>, 48)        \* 5678000... a commit of tree hTe
hTr   == Pad40(<<51, 52, 53, 54>>, 48)        \* 3456000... a tree of one entry
hTe   == Pad40(<<52, 53, 54, 55>>, 48)        \* 4567000... the empty tree
hNone == Pad40(<<102, 102, 102, 102>>, 48)    \* ffff000... not stored

D_hi    == <<104, 105>>                       \* b'hi'
D_hello == <<104, 101, 108, 108, 111, 10>>    \* b'hello\n'
D_msg   == <<109, 10>>                        \* b'm\n'

CommitData(tree, parents) ==
    KvEncode(<<[k |-> B_tree, lines |-> <<tree>>]>>
             \o [i \in 1 .. Len(parents) |-> [k |-> B_parent, lines |-> <<parents[i]>>]],
             D_msg)
TagData(target) == KvEncode(<<[k |-> B_object, lines |-> <<target>>]>>, D_msg)

hHi == Sha1Hex(Envelope(B_blob, D_hi))        \* b'hi' under its own digest

SeedList ==
    << <<hA, B_blob, <<65>>>>, <<hB, B_blob, <<66>>>>, <<hC, B_blob, <<67>>>>,
       <<hHi, B_blob, D_hi>>,
       <<hTag, B_tag, TagData(hCm)>>, <<hTag2, B_tag, TagData(hTag)>>,
       <<hTag3, B_tag, TagData(hCm2)>>,
       <<hCm, B_commit, CommitData(hTr, <<>>)>>,
       <<hCm2, B_commit, CommitData(hTe, <<hCm>>)>>,
       <<hTr, B_tree, TreeEncode(<<[mode |-> <<49, 48, 48, 54, 52, 52>>,
                                    path |-> <<97>>,
                                    key |-> BytesOfDigits(hA)]>>)>>,
       <<hTe, B_tree, <<>>>> >>

SeedHashes == {SeedList[i][1] : i \in 1 .. Len(SeedList)}

FilesOf(list) ==
    [q \in {ObjectPath(list[i][1]) : i \in 1 .. Len(list)} |->
        LET i == CHOOSE i \in 1 .. Len(list) : ObjectPath(list[i][1]) = q
        IN  Compress(Envelope(list[i][2], list[i][3]))]

SeedObjects == FilesOf(SeedList)

\* HEAD as repo_create writes it, a branch and a tag
SeedRefs ==
    (S_HEAD :> (S_refmark \o S_refsheads \o S_master \o <<NL>>))
    @@ ((S_refsheads \o S_master) :> (hCm2 \o <<NL>>))
    @@ ((S_refstags \o S_v1) :> (hTag \o <<NL>>))

Kinds == {B_blob, B_tree, B_commit, B_tag}
NoFmt == <<>>       \* fmt=None

Upper(s) == [i \in 1 .. Len(s) |-> IF s[i] \in 97 .. 122 THEN s[i] - 32 ELSE s[i]]

hHello == Sha1Hex(Envelope(B_blob, D_hello))  \* b'hello\n' under its own digest

PrefixLens == {3, 4, 16, 17, 40}
FindNames ==
    {PySlice(h, 0, n) : h \in {hA, hC, hNone}, n \in PrefixLens}
    \cup {Upper(PySlice(hA, 0, n)) : n \in {4, 40}}
    \cup {PySlice(hHello, 0, 4), <<>>, <<SP>>, S_HEAD, S_master, S_v1}
KindNames ==
    {PySlice(h, 0, 4) : h \in {hC, hTag, hTag2, hTag3, hCm, hCm2, hTr, hTe}} \cup {S_HEAD}
FindCalls ==
    (FindNames \X {NoFmt} \X {TRUE}) \cup (KindNames \X Kinds \X {TRUE})
    \cup ({PySlice(hTag, 0, 4), PySlice(hCm, 0, 4)} \X Kinds \X {FALSE})

\* the objects the commands hand to object_write
WriteObjs ==
    {Construct(B_blob, D_hello).obj, Construct(B_blob, D_hi).obj,
     Construct(B_commit, CommitData(hTe, <<hCm, hCm2>>)).obj,
     Construct(B_tree, <<>>).obj}

InitStore ==
    /\ objects = SeedObjects
    /\ refs = SeedRefs
    /\ pc = "idle" /\ call = [op |-> "none"] /\ sha = <<>>
    /\ result = [st |-> "none", v |-> <<>>, cands |-> {}]
    /\ trail = <<>>
    /\ returned = [o \in WriteObjs |-> {}]
    /\ written = [o \in WriteObjs |-> <<>>]
    /\ nWrites = 0
    /\ KvlmIdle /\ TreeIdle /\ LogIdle /\ RefIdle

Ready == pc = "idle"

Res(st, v, cands) == [st |-> st, v |-> v, cands |-> cands]

\* object_write
ObjectWrite(obj, true_write) ==
    /\ Ready /\ nWrites < MaxWrites
    /\ nWrites' = nWrites + 1
    /\ call' = [op |-> "object_write", obj |-> obj, true_write |-> true_write]
    /\ LET data == Serialize(obj)
           res  == Envelope(obj.fmt, data.data)
           h    == Sha1Hex(res)
       IN  IF data.st # "ok"
           THEN /\ result' = Res(data.st, <<>>, {}) /\ pc' = "raised"
                /\ UNCHANGED <<objects, written>>
           ELSE /\ result' = Res("ok", h, {}) /\ pc' = "returned"
                /\ IF true_write
                   THEN /\ objects' = WriteFile(objects, ObjectPath(h), Compress(res))
                        /\ written' = [written EXCEPT
                                          ![obj] = Append(@, objects'[ObjectPath(h)])]
                   ELSE UNCHANGED <<objects, written>>
    /\ returned' = [returned EXCEPT ![obj] = @ \cup {result'}]
    /\ UNCHANGED <<refs, sha, trail, kvlmVars, treeVars, logVars, refVars>>

\* object_find, lines 213-224
ObjectFindCall(name, fmt, follow) ==
    /\ Ready
    /\ call' = [op |-> "object_find", name |-> name, fmt |-> fmt, follow |-> follow]
    /\ trail' = <<>>
    /\ LET r == object_resolve(objects, refs, name)
       IN  IF r.st # "ok"
           THEN result' = Res(r.st, <<>>, {}) /\ pc' = "raised" /\ sha' = <<>>
           ELSE IF r.none \/ r.cands = {}
           THEN result' = Res("NoSuchReference", <<>>, {}) /\ pc' = "raised" /\ sha' = <<>>
           ELSE IF Cardinality(r.cands) > 1
           THEN result' = Res("AmbiguousReference", <<>>, r.cands) /\ pc' = "raised"
                /\ sha' = <<>>
           ELSE LET one == CHOOSE c \in r.cands : TRUE
                IN  /\ sha' = one
                    /\ IF fmt = NoFmt
                       THEN result' = Res("ok", one, {}) /\ pc' = "returned"
                       ELSE result' = Res("none", <<>>, {}) /\ pc' = "find"
    /\ UNCHANGED <<objects, refs, returned, written, nWrites,
                   kvlmVars, treeVars, logVars, refVars>>

\* the header object_find follows from an object of kind objfmt when fmt is
\* asked for (lines 236-241); <<>> when there is none
\* a follow rule that goes from a commit to its tree whatever kind is asked for
FollowKeyAnyKind(objfmt, fmt) ==
    IF objfmt = B_tag THEN B_object
    ELSE IF objfmt = B_commit THEN B_tree
    ELSE <<>>

FollowKey(objfmt, fmt) ==
    IF objfmt = B_tag THEN B_object
    ELSE IF objfmt = B_commit /\ fmt = B_tree THEN B_tree
    ELSE <<>>

\* object_find, one turn of the loop of lines 226-241
ObjectFindLoop ==
    /\ pc = "find"
    /\ trail' = Append(trail, sha)
    /\ LET rd  == object_read(objects, Str(sha))
           key == FollowKey(rd.obj.fmt, call.fmt)
       IN  IF rd.st = "hang"
           THEN pc' = "hang" /\ UNCHANGED <<sha, result>>
           ELSE IF rd.st # "ok"
           THEN result' = Res(rd.st, <<>>, {}) /\ pc' = "raised" /\ UNCHANGED sha
           ELSE IF rd.obj.fmt = call.fmt
           THEN result' = Res("ok", sha, {}) /\ pc' = "returned" /\ UNCHANGED sha
           ELSE IF ~call.follow \/ key = <<>>
           THEN result' = Res("None", <<>>, {}) /\ pc' = "returned" /\ UNCHANGED sha
           ELSE IF ~DictHas(rd.obj.kvlm, key)
           THEN result' = Res("KeyError", <<>>, {}) /\ pc' = "raised" /\ UNCHANGED sha
           ELSE IF DictGet(rd.obj.kvlm, key).list
           THEN result' = Res("AttributeError", <<>>, {}) /\ pc' = "raised" /\ UNCHANGED sha
           ELSE sha' = DictGet(rd.obj.kvlm, key).vs[1] /\ pc' = "find" /\ UNCHANGED result
    /\ UNCHANGED <<objects, refs, call, returned, written, nWrites,
                   kvlmVars, treeVars, logVars, refVars>>

\* main: the command is over, by a return or by an exception, and the next
\* run of the program starts from the files
Exit ==
    /\ pc \in {"returned", "raised"}
    /\ pc' = "idle" /\ call' = [op |-> "none"] /\ sha' = <<>> /\ trail' = <<>>
    /\ result' = Res("none", <<>>, {})
    /\ UNCHANGED <<objects, refs, returned, written, nWrites,
                   kvlmVars, treeVars, logVars, refVars>>

Next ==
    \/ \E o \in WriteObjs, w \in BOOLEAN : ObjectWrite(o, w)
    \/ \E c \in FindCalls : ObjectFindCall(c[1], c[2], c[3])
    \/ ObjectFindLoop
    \/ Exit

Spec == InitStore /\ [][Next]_vars

---------------------------------------------------------------------------
(* log_graphviz: the recursion is a stack of frames; a frame is at "enter" *)
(* (lines 420-433 to come) or in the loop of lines 435-438 at parent i.    *)

NumCommits == 4     \* commits of a generated history
MaxParents == 2     \* parent headers of a generated commit
MaxEdges == 4       \* parent headers of a generated history

\* the stored name of commit n: c<n>000...
CommitName(n) == Pad40(<<99, 48 + n>>, 48)

\* the parent lists of a commit: any commits, itself and a cycle included
ParentLists ==
    {ps \in UNION {[1 .. k -> 1 .. NumCommits] : k \in 0 .. MaxParents} :
        \A i, j \in 1 .. Len(ps) : i < j => ps[i] < ps[j]}

GraphFiles(g) ==
    FilesOf([n \in 1 .. NumCommits |->
                <<CommitName(n), B_commit,
                  CommitData(hTe, [i \in 1 .. Len(g[n]) |-> CommitName(g[n][i])])>>])

RECURSIVE EdgeCount(_, _)
EdgeCount(g, n) == IF n = 0 THEN 0 ELSE Len(g[n]) + EdgeCount(g, n - 1)

Histories ==
    {g \in [1 .. NumCommits -> ParentLists] : EdgeCount(g, NumCommits) <= MaxEdges}

\* cmd_log: the start is the str that object_find returned, seen is set();
\* the walk starts at commit 1 of the history
InitLog ==
    /\ lgraph \in Histories
    /\ objects = GraphFiles(lgraph) /\ refs = <<>> /\ CmdIdle
    /\ lstart = CommitName(1)
    /\ lstack = <<[sha |-> Str(lstart), at |-> "enter", parents |-> <<>>, i |-> 0]>>
    /\ seen = {} /\ edges = <<>> /\ visits = <<>> /\ lpc = "walking"
    /\ KvlmIdle /\ TreeIdle /\ RefIdle

Top == lstack[Len(lstack)]
Pop == SubSeq(lstack, 1, Len(lstack) - 1)

\* lines 430-433: the parent header as a list
ParentsOf(kvlm) ==
    IF ~DictHas(kvlm, B_parent) THEN <<>> ELSE DictGet(kvlm, B_parent).vs

\* `sha in seen`, line 420
InSeen(v, set) == v \in set

\* lines 420-433
LogEnter ==
    /\ lpc = "walking" /\ lstack # <<>> /\ Top.at = "enter"
    /\ IF InSeen(Top.sha, seen)
       THEN /\ lstack' = Pop
            /\ lpc' = IF Pop = <<>> THEN "returned" ELSE "walking"
            /\ UNCHANGED <<seen, visits>>
       ELSE /\ seen' = seen \cup {Top.sha}
            /\ LET rd == object_read(objects, Top.sha)
               IN  IF rd.st # "ok"
                   THEN lpc' = rd.st /\ UNCHANGED <<lstack, visits>>
                   ELSE IF rd.obj.fmt # B_commit
                   THEN lpc' = "AssertionError" /\ UNCHANGED <<lstack, visits>>
                   ELSE /\ visits' = Append(visits, Top.sha)
                        /\ IF ~DictHas(rd.obj.kvlm, B_parent)
                           THEN /\ lstack' = Pop
                                /\ lpc' = IF Pop = <<>> THEN "returned" ELSE "walking"
                           ELSE /\ lstack' = [lstack EXCEPT
                                       ![Len(lstack)] = [sha |-> Top.sha, at |-> "loop",
                                                         parents |-> ParentsOf(rd.obj.kvlm),
                                                         i |-> 1]]
                                /\ lpc' = "walking"
    /\ UNCHANGED <<lgraph, lstart, edges, storeVars, kvlmVars, treeVars, refVars>>

\* lines 435-438: p is one of the header's byte strings (the str that
\* p.decode("ascii") makes is dropped), it is printed and walked; after the
\* last parent the call returns
LogLoop ==
    /\ lpc = "walking" /\ lstack # <<>> /\ Top.at = "loop"
    /\ IF Top.i <= Len(Top.parents)
       THEN /\ edges' = Append(edges, <<Top.sha, Bytes(Top.parents[Top.i])>>)
            /\ lstack' = Append([lstack EXCEPT ![Len(lstack)].i = @ + 1],
                                [sha |-> Bytes(Top.parents[Top.i]), at |-> "enter",
                                 parents |-> <<>>, i |-> 0])
            /\ lpc' = "walking"
       ELSE /\ lstack' = Pop
            /\ lpc' = IF Pop = <<>> THEN "returned" ELSE "walking"
            /\ edges' = edges
    /\ UNCHANGED <<lgraph, lstart, seen, visits, storeVars, kvlmVars, treeVars, refVars>>

NextLog == LogEnter \/ LogLoop

SpecLog == InitLog /\ [][NextLog]_vars

WalkOver == lpc # "walking"

\* how often the commit named h was read and expanded, and the edges
\* printed from it, as (child, parent) names
VisitCount(h) == Cardinality({i \in 1 .. Len(visits) : visits[i].v = h})
EdgesFrom(h) ==
    LET own == SelectSeq(edges, LAMBDA e : e[1].v = h)
    IN  [i \in 1 .. Len(own) |-> <<own[i][1].v, own[i][2].v>>]

\* the start merges two commits that have the same single parent
Diamond ==
    \E s, a, b, r \in 1 .. NumCommits :
        /\ Cardinality({s, a, b, r}) = 4
        /\ lstart = CommitName(s)
        /\ lgraph[s] = <<a, b>> /\ lgraph[a] = <<r>> /\ lgraph[b] = <<r>> /\ lgraph[r] = <<>>

SharedAncestor ==
    CHOOSE r \in 1 .. NumCommits :
        \E a, b \in 1 .. NumCommits : a # b /\ lgraph[a] = <<r>> /\ lgraph[b] = <<r>>

(* C5: in one walk a commit is read and expanded at most once; when the    *)
(* walk is over, the shared ancestor of a diamond was visited exactly      *)
(* once, and each visited commit's parent edges were printed once each,    *)
(* as (child, parent), in the order of its parent headers.                 *)
C5_VisitOnce ==
    /\ \A n \in 1 .. NumCommits : VisitCount(CommitName(n)) <= 1
    /\ WalkOver =>
          /\ Diamond => VisitCount(CommitName(SharedAncestor)) = 1
          /\ \A n \in 1 .. NumCommits :
                VisitCount(CommitName(n)) = 1 =>
                    EdgesFrom(CommitName(n)) =
                        [i \in 1 .. Len(lgraph[n]) |->
                            <<CommitName(n), CommitName(lgraph[n][i])>>]

(* C9: the walk over any set of stored commits, cycles included, ends by   *)
(* returning: it is under way with a frame to run, or it has returned; it  *)
(* never stops in another way.                                             *)
C9_WalkReturns ==
    \/ lpc = "returned" /\ lstack = <<>>
    \/ lpc = "walking" /\ lstack # <<>>

---------------------------------------------------------------------------
(* ref_resolve, one call of the recursion per step *)

NumRefs == 2        \* branch files beside HEAD
MaxDepth == 5       \* nested calls the interpreter allows (1000 by default)

RefName(n) == S_refsheads \o <<96 + n>>          \* refs/heads/a, refs/heads/b
RefPaths == {S_HEAD} \cup {RefName(n) : n \in 1 .. NumRefs}

\* a ref file as the program (line 118) and git write it: a line
SymbolicRef(path) == S_refmark \o path \o <<NL>>
DirectRef(h) == h \o <<NL>>
RefHashes == {hA, hCm}
RefContents ==
    {DirectRef(h) : h \in RefHashes} \cup {SymbolicRef(q) : q \in RefPaths}

RefStores ==
    UNION {[present -> RefContents] : present \in SUBSET RefPaths}

InitRef ==
    /\ refs \in RefStores /\ objects = <<>> /\ CmdIdle
    /\ KvlmIdle /\ TreeIdle /\ LogIdle /\ RefIdle

\* a caller (ref_list, object_resolve) calls ref_resolve(repo, ref)
RefCall(ref) ==
    /\ rpc = "idle"
    /\ rstart' = ref /\ rcur' = ref /\ rdepth' = 1 /\ rpc' = "running"
    /\ UNCHANGED <<rresult, storeVars, kvlmVars, treeVars, logVars>>

\* lines 541-547 for the innermost call
RefStep ==
    /\ rpc = "running"
    /\ LET h == RefHop(refs, rcur)
       IN  IF h.st = "FileNotFoundError"
           THEN rpc' = "FileNotFoundError" /\ UNCHANGED <<rcur, rresult, rdepth>>
           ELSE IF h.st = "ok"
           THEN rpc' = "returned" /\ rresult' = h.v /\ UNCHANGED <<rcur, rdepth>>
           ELSE IF rdepth = MaxDepth
           THEN rpc' = "RecursionError" /\ UNCHANGED <<rcur, rresult, rdepth>>
           ELSE /\ rcur' = h.v /\ rdepth' = rdepth + 1
                /\ UNCHANGED <<rpc, rresult>>
    /\ UNCHANGED <<rstart, storeVars, kvlmVars, treeVars, logVars>>

NextRef == (\E ref \in RefPaths : RefCall(ref)) \/ RefStep

SpecRef == InitRef /\ [][NextRef]_vars

\* the interpreter runs the call that is under way
SpecRefFair == SpecRef /\ WF_vars(RefStep)

\* where the chain of a ref ends, read off the files: at a direct hash, at
\* a missing file, or nowhere
RECURSIVE ChainEnd(_, _, _)
ChainEnd(files, path, hops) ==
    IF path \notin DOMAIN files THEN [k |-> "dangling", v |-> <<>>]
    ELSE IF \E h \in RefHashes : files[path] = DirectRef(h)
    THEN [k |-> "hash", v |-> CHOOSE h \in RefHashes : files[path] = DirectRef(h)]
    ELSE IF hops = 0 THEN [k |-> "loop", v |-> <<>>]
    ELSE ChainEnd(files, CHOOSE q \in RefPaths : files[path] = SymbolicRef(q), hops - 1)

ChainOf(path) == ChainEnd(refs, path, Cardinality(RefPaths))

(* C10: a call whose chain of symbolic refs is finite and ends at a file    *)
(* with a direct hash returns, and returns that hash, however many hops it *)
(* takes; a call returns nothing else, so a chain that loops never gives a *)
(* hash.                                                                   *)
C10_RefResolveFollows ==
    /\ [](rpc = "returned" =>
            ChainOf(rstart).k = "hash" /\ rresult = ChainOf(rstart).v)
    /\ [](rpc # "idle" /\ ChainOf(rstart).k = "loop" => rpc # "returned")
    /\ \A p \in RefPaths :
          (rpc = "running" /\ rstart = p /\ ChainOf(p).k = "hash")
              ~> (rpc = "returned" /\ rresult = ChainOf(p).v)

\* a call returned the hash after two hops
C10_Witness ==
    rpc = "returned" /\ rdepth = 3 /\ rresult \in RefHashes

---------------------------------------------------------------------------
(* Claims about the store commands *)

StoredHashes(files) == {q[1] \o q[2] : q \in DOMAIN files}
IsHexName(name) == \A i \in 1 .. Len(name) : IsHexChar(name[i])
IsHash40(h) == Len(h) = 40 /\ \A i \in 1 .. 40 : h[i] \in (48 .. 57) \cup (97 .. 102)

\* the decompressed file of a stored hash, its kind and its payload
RawOf(files, h) == Decompress(files[ObjectPath(h)]).data
KindOf(files, h) == PySlice(RawOf(files, h), 0, Find(RawOf(files, h), SP, 0))
PayloadOf(files, h) == PyFrom(RawOf(files, h), Find(RawOf(files, h), NUL, 0) + 1)
HeaderOf(files, h, key) == DictGet(kvlm_parse(PayloadOf(files, h)).dct, key).vs[1]

\* the files that hold the kind and payload of o
Holders(o) ==
    LET env == Envelope(o.fmt, Serialize(o).data)
    IN  {q \in DOMAIN objects :
            /\ Len(objects[q]) = Len(env) + 3
            /\ Decompress(objects[q]) = [st |-> "ok", data |-> env]}

WrittenPaths ==
    {<<SubSeq(r.v, 1, 2), SubSeq(r.v, 3, 40)>> :
        r \in UNION {returned[o] : o \in {o \in WriteObjs : written[o] # <<>>}}}

(* C1: object_write is idempotent and hash-stable. Every call for the same *)
(* object, of any kind, returns the same hash of 40 lower-case hex digits, *)
(* once the object was written (true_write) one file holds it, that of its *)
(* hash, objects/<hash[0:2]>/<hash[2:]>, with the content the first write  *)
(* left; every other file is as it was.                                    *)
C1_WriteIdempotent ==
    /\ \A o \in WriteObjs :
          /\ Cardinality(returned[o]) <= 1
          /\ \A r \in returned[o] : r.st = "ok" /\ IsHash40(r.v)
          /\ written[o] # <<>> =>
                \E r \in returned[o] :
                   /\ r.st = "ok"
                   /\ Holders(o) = {<<SubSeq(r.v, 1, 2), SubSeq(r.v, 3, 40)>>}
                   /\ \A i \in 1 .. Len(written[o]) : written[o][i] = written[o][1]
                   /\ objects[<<SubSeq(r.v, 1, 2), SubSeq(r.v, 3, 40)>>] = written[o][1]
    /\ DOMAIN objects = DOMAIN SeedObjects \cup WrittenPaths
    /\ \A q \in DOMAIN SeedObjects \ WrittenPaths : objects[q] = SeedObjects[q]

FindOver == pc \in {"returned", "raised"} /\ call.op = "object_find"

(* C2: a hex name of four digits or more, no kind asked for: object_find   *)
(* goes by the stored hashes that start with the name. None: no such       *)
(* reference; two or more: ambiguous, with every one of them listed; one:  *)
(* that hash is returned.                                                  *)
C2_PrefixClassified ==
    (FindOver /\ call.fmt = NoFmt /\ Len(call.name) >= 4 /\ IsHexName(call.name)) =>
        LET M == {h \in StoredHashes(objects) : StartsWith(h, Lower(call.name))}
        IN  /\ M = {} => result.st = "NoSuchReference"
            /\ Cardinality(M) >= 2 => (result.st = "AmbiguousReference" /\ result.cands = M)
            /\ Cardinality(M) = 1 => (result.st = "ok" /\ result.v \in M)

(* C3: a name of exactly 40 hex digits is the one candidate itself, in     *)
(* lower case, and object_find with no kind asked for returns it.          *)
C3_FullHashDirect ==
    (FindOver /\ call.fmt = NoFmt /\ Len(call.name) = 40 /\ IsHexName(call.name)) =>
        /\ object_resolve(objects, refs, call.name).cands = {Lower(call.name)}
        /\ result.st = "ok" /\ result.v = Lower(call.name)

(* C8: the name of a branch or tag that exists under refs/heads or         *)
(* refs/tags resolves to the hash that ref resolves to: object_find        *)
(* returns it and does not fail with "no such reference".                  *)
C8_RefNamesResolve ==
    (FindOver /\ call.fmt = NoFmt /\ call.name # <<>>) =>
        \A ns \in {S_refsheads, S_refstags} :
            (ns \o call.name) \in DOMAIN refs =>
                /\ result.st = "ok"
                /\ result.v = ref_resolve(refs, ns \o call.name).v

============================================================================
